---- MODULE Spec2Model ----
(***************************************************************************)
(* Model of the tapuze backend (Express routes of server.js over the       *)
(* Sequelize models): classroom creation, assignment submission and        *)
(* grading.  A route that awaits the store between a read and a write is   *)
(* split at that await, so requests interleave as they do on the Node      *)
(* event loop; every other route is one atomic step.                       *)
(*                                                                         *)
(* Marks are integers counted in thousandths of a mark (50005 is 50.005),  *)
(* one digit finer than the DECIMAL(5,2) column that stores them.          *)
(* Classroom codes are sequences of one-character strings, names and       *)
(*feedback are strings, optional values are None or Some(v).  db is the    *)
(* classrooms array of db.json, the file the join route keeps; emails is   *)
(* the email column of the lecturers and the students table, by id; proc   *)
(* is where the server and the setup script stand in their start-up.       *)
(***************************************************************************)
EXTENDS Integers, Sequences, FiniteSets, TLC

VARIABLES lecturers, students, classrooms, assignments, submissions,
          now, nextFile, reqs, resp, db, emails, proc

vars == <<lecturers, students, classrooms, assignments, submissions,
          now, nextFile, reqs, resp, db, emails, proc>>

\* ------------------------------------------------------------------ values

\* null / undefined, and a present value.
None == <<>>
Some(v) == <<v>>
Val(o) == o[1]

\* Email addresses, as sequences of characters.
Ann == <<"a", "@", "x">>
Bob == <<"b", "@", "x">>

\* The two programs of the repository: the server, which is listening, and
\* the setup script, which is not running.
Serving ==
    [server |-> [pc |-> "listening", dbInitialized |-> Some(TRUE), args |-> {}],
     setup |-> [pc |-> "off", dbInitialized |-> None, args |-> {}]]

\* ------------------------------------------------------------------ bounds

\* The clock runs from 0 to MaxTime.
MaxTime == 1
\* Files handed in by submit calls in one run (each call brings a new one).
MaxFiles == 2
\* Rows of assignment_submissions.
MaxSubmissions == 2
\* Requests that may be between their read and their write at once.
MaxInFlight == 2
\* Rows of classrooms in the classroom-registry specification.
MaxClassrooms == 2
\* Rows of assignments.
MaxAssignments == 4

Reqs == 1..MaxInFlight

\* ------------------------------------------------------- program constants

\* AssignmentSubmission.mark: validate { min: 0, max: 100 }, DECIMAL(5, 2).
MarkMin == 0
MarkMax == 100
DecimalScale == 2
\* Classroom.classroom_code: validate { len: [6, 10] }.
CodeMinLen == 6
CodeMaxLen == 10
\* Classroom.class_name: validate { len: [2, 100] }.
NameMinLen == 2
NameMaxLen == 100
\* Assignment.assignment_title: validate { len: [2, 200] }.
TitleMinLen == 2
TitleMaxLen == 200

\* One mark, in the unit marks are counted in (thousandths).
Milli == 10 ^ (DecimalScale + 1)

\* ------------------------------------------------------------ pure helpers

\* `mark || null`: a missing mark and the number 0 are both falsy.
MarkOrNull(mark) ==
    IF mark = None \/ Val(mark) = 0 THEN None ELSE mark

\* `feedback || null`: a missing feedback and the empty string are falsy.
FeedbackOrNull(feedback) ==
    IF feedback = None \/ Val(feedback) = "" THEN None ELSE feedback

\* A validator that lacks the max rule: only min: 0 is applied.
MarkValid_NoMax(mark) ==
    mark = None \/ Val(mark) >= MarkMin * Milli

\* The mark validators min: 0 and max: 100; a null mark is not validated.
MarkValid(mark) ==
    mark = None \/ (Val(mark) >= MarkMin * Milli /\ Val(mark) <= MarkMax * Milli)

\* What a DECIMAL(5,2) column keeps of a non-negative value: it is rounded,
\* half up, to DecimalScale decimals.
Decimal52(mark) ==
    IF mark = None THEN None
    ELSE LET step == Milli \div (10 ^ DecimalScale)
         IN  Some(((Val(mark) + step \div 2) \div step) * step)

\* String.prototype.toUpperCase on one character of the code alphabet.
UpperChar(c) ==
    CASE c = "a" -> "A"
      [] c = "b" -> "B"
      [] OTHER -> c

\* A code stored as it was typed.
toUpperCase_AsTyped(s) == s

toUpperCase(s) == [i \in 1..Len(s) |-> UpperChar(s[i])]

\* SET col = value for the columns of vals, the others kept.
WriteFields(row, vals) ==
    [f \in DOMAIN row |-> IF f \in DOMAIN vals THEN vals[f] ELSE row[f]]

Merge(a, b) ==
    [f \in (DOMAIN a) \cup (DOMAIN b) |-> IF f \in DOMAIN b THEN b[f] ELSE a[f]]

NoFields == [f \in {} |-> None]

\* AssignmentSubmission.hooks.beforeUpdate: what the hook assigns, given
\* whether the instance's mark changed and the instance's mark.
beforeUpdate(markChanged, mark, date) ==
    IF markChanged /\ mark # None
    THEN [status |-> "graded", graded_at |-> Some(date)]
    ELSE NoFields

\* AssignmentSubmission.findOne({ where: { student_id, assignment_id } }):
\* the matching row of lowest id, or None.
findSubmission(studentId, assignmentId) ==
    LET hits == {i \in DOMAIN submissions :
                    /\ submissions[i].student_id = studentId
                    /\ submissions[i].assignment_id = assignmentId}
    IN  IF hits = {} THEN None
        ELSE Some(CHOOSE i \in hits : \A j \in hits : i <= j)

\* A lookup by id alone, as Classroom.findByPk would do it.
ownsClassroom_AnyLecturer(lecturer, classroomId) ==
    classroomId \in DOMAIN classrooms

\* Classroom.findOne({ where: { id, created_by } }) finds a row.
ownsClassroom(lecturer, classroomId) ==
    /\ classroomId \in DOMAIN classrooms
    /\ classrooms[classroomId].created_by = lecturer

\* A lookup by id alone, as Assignment.findByPk would do it.
assignmentInClassroom_AnyClassroom(assignmentId, classroomId) ==
    assignmentId \in DOMAIN assignments

\* Assignment.findOne({ where: { id, classroom_id } }) finds a row.
assignmentInClassroom(assignmentId, classroomId) ==
    /\ assignmentId \in DOMAIN assignments
    /\ assignments[assignmentId].classroom_id = classroomId

\* AssignmentSubmission.findOne({ where: { id, assignment_id } }) finds a row.
submissionOfAssignment(submissionId, assignmentId) ==
    /\ submissionId \in DOMAIN submissions
    /\ submissions[submissionId].assignment_id = assignmentId

\* ---------------------------------------------------------------- requests

Idle == [pc |-> "idle"]

NoResp == [op |-> "none", status |-> 0, id |-> None, updated |-> FALSE]

\* The answer sent last: the route, the HTTP status, the row it names (for a
\* listing, the ids of its rows in the order sent) and whether it says
\* "updated" (a submit that found an earlier submission).
Respond(op, status, id, updated) ==
    resp' = [op |-> op, status |-> status, id |-> id, updated |-> updated]

\* --------------------------------------------------------------- the clock

Tick ==
    /\ now < MaxTime
    /\ now' = now + 1
    /\ UNCHANGED <<db, emails, proc, lecturers, students, classrooms, assignments, submissions,
                   nextFile, reqs, resp>>

\* ------------------------------------------------------------------ submit
\* POST /api/classrooms/:classroomId/assignments/:assignmentId/submissions
\*
\* Every call brings its own file: nextFile + 1 names it.  An upload is stored
\* by multer under a fresh name (timestamp and uuid) before the handler runs;
\* a JSON call carries it as fileData / fileName.

\* The inputs a run draws from.
ClassroomIds == 1..(Len(classrooms) + 1)
AssignmentIds == 1..(Len(assignments) + 1)
SubmissionIds == 1..(Len(submissions) + 1)
StudentIdInputs == {None} \cup {Some(s) : s \in students} \cup {Some(Cardinality(students) + 1)}

\* Up to the read of the existing submission: the validation of the body,
\* the three existence checks and AssignmentSubmission.findOne.
SubmitRead(r, classroomId, assignmentId, studentId, isFileUpload, hasFileData) ==
    /\ reqs[r].pc = "idle"
    /\ (isFileUpload \/ hasFileData) => nextFile < MaxFiles
    /\ nextFile' = IF isFileUpload \/ hasFileData THEN nextFile + 1 ELSE nextFile
    /\ IF studentId = None \/ (~isFileUpload /\ ~hasFileData)
       THEN /\ Respond("submit", 400, None, FALSE)
            /\ UNCHANGED reqs
       ELSE IF classroomId \notin DOMAIN classrooms
       THEN /\ Respond("submit", 404, None, FALSE)
            /\ UNCHANGED reqs
       ELSE IF ~assignmentInClassroom(assignmentId, classroomId)
       THEN /\ Respond("submit", 404, None, FALSE)
            /\ UNCHANGED reqs
       ELSE IF Val(studentId) \notin students
       THEN /\ Respond("submit", 404, None, FALSE)
            /\ UNCHANGED reqs
       ELSE LET existingSubmission == findSubmission(Val(studentId), assignmentId)
            IN  /\ reqs' = [reqs EXCEPT ![r] =
                     [pc |-> "submitWrite",
                      student_id |-> Val(studentId),
                      assignment_id |-> assignmentId,
                      isFileUpload |-> isFileUpload,
                      file |-> nextFile + 1,
                      existing |-> existingSubmission,
                      status |-> IF existingSubmission = None THEN "none"
                                 ELSE submissions[Val(existingSubmission)].status]]
                /\ UNCHANGED resp
    /\ UNCHANGED <<db, emails, proc, lecturers, students, classrooms, assignments, submissions, now>>

\* A submit that marks what it stores as late.
submissionData_Late(rq) ==
    IF rq.isFileUpload
    THEN [status |-> "late", assignment_file |-> Some(rq.file)]
    ELSE [status |-> "late"]

\* submissionData: status 'submitted', and the stored file's path for an
\* upload.  submitted_at and file_name are no attributes of the model and
\* are dropped; the JSON branch that kept fileData is commented out.
submissionData(rq) ==
    IF rq.isFileUpload
    THEN [status |-> "submitted", assignment_file |-> Some(rq.file)]
    ELSE [status |-> "submitted"]

\* The row AssignmentSubmission.create inserts.
NewSubmission(rq) ==
    WriteFields([student_id |-> rq.student_id,
                 assignment_id |-> rq.assignment_id,
                 assignment_file |-> None,
                 mark |-> None,
                 status |-> "submitted",
                 feedback |-> None,
                 graded_at |-> None,
                 graded_by |-> None],
                submissionData(rq))

\* existingSubmission.update(submissionData) on the instance read earlier:
\* nothing is sent when no attribute of the instance changed; otherwise the
\* attributes of submissionData are written to the row of the instance's id.
\* The mark is not among them, so beforeUpdate sees changed('mark') false.
UpdateSubmission(rq) ==
    LET values == submissionData(rq)
        changed == rq.isFileUpload \/ rq.status # values.status
        id == Val(rq.existing)
        hooked == Merge(values, beforeUpdate(FALSE, submissions[id].mark, now))
    IN  IF changed
        THEN [submissions EXCEPT ![id] = WriteFields(@, hooked)]
        ELSE submissions

\* The write: update the submission found, or create one.
SubmitWrite(r) ==
    /\ reqs[r].pc = "submitWrite"
    /\ LET rq == reqs[r]
       IN  IF rq.existing # None
           THEN /\ submissions' = UpdateSubmission(rq)
                /\ Respond("submit", 201, rq.existing, TRUE)
           ELSE /\ Len(submissions) < MaxSubmissions
                /\ submissions' = Append(submissions, NewSubmission(rq))
                /\ Respond("submit", 201, Some(Len(submissions) + 1), FALSE)
    /\ reqs' = [reqs EXCEPT ![r] = Idle]
    /\ UNCHANGED <<db, emails, proc, lecturers, students, classrooms, assignments, now, nextFile>>

\* ------------------------------------------------------------------- grade
\* PUT /api/classrooms/:classroomId/assignments/:assignmentId/submissions/:submissionId

MarkInputs == {None, Some(0 - 1), Some(0), Some(50005),
               Some(MarkMax * Milli), Some(MarkMax * Milli + 1)}
FeedbackInputs == {None, Some(""), Some("good")}

\* Up to the read of the submission: the classroom owned by the caller, the
\* assignment of that classroom, the submission of that assignment.  The
\* instance read keeps the row's id and its file as they were read.
GradeRead(r, lecturer, classroomId, assignmentId, submissionId) ==
    /\ reqs[r].pc = "idle"
    /\ IF ~ownsClassroom(lecturer, classroomId)
       THEN /\ Respond("grade", 404, None, FALSE)
            /\ UNCHANGED reqs
       ELSE IF ~assignmentInClassroom(assignmentId, classroomId)
       THEN /\ Respond("grade", 404, None, FALSE)
            /\ UNCHANGED reqs
       ELSE IF ~submissionOfAssignment(submissionId, assignmentId)
       THEN /\ Respond("grade", 404, None, FALSE)
            /\ UNCHANGED reqs
       ELSE /\ reqs' = [reqs EXCEPT ![r] =
                     [pc |-> "gradeWrite",
                      user |-> lecturer,
                      id |-> submissionId,
                      assignment_file |-> submissions[submissionId].assignment_file]]
            /\ UNCHANGED resp
    /\ UNCHANGED <<db, emails, proc, lecturers, students, classrooms, assignments, submissions,
                   now, nextFile>>

\* The values submission.update is given.
gradeValues(user, mark, feedback) ==
    [mark |-> MarkOrNull(mark),
     feedback |-> FeedbackOrNull(feedback),
     graded_by |-> Some(user),
     graded_at |-> Some(now),
     status |-> "graded"]

\* A grade that also clears the file of the row.
Stored_ClearsFile(values) ==
    Merge([values EXCEPT !.mark = Decimal52(@)], [assignment_file |-> None])

\* The columns as the table keeps them.
Stored(values) ==
    [values EXCEPT !.mark = Decimal52(@)]

\* submission.update(...): validation, then beforeUpdate, then the UPDATE of
\* the row of the instance's id.  graded_at is a new Date, so the instance
\* always counts as changed and the UPDATE is always sent.  changed('mark')
\* is true whenever the new mark is not null: the instance holds the DECIMAL
\* as the string the driver returned, the body holds a number.
GradeWrite(r, mark, feedback) ==
    /\ reqs[r].pc = "gradeWrite"
    /\ LET rq == reqs[r]
           values == gradeValues(rq.user, mark, feedback)
           hooked == Merge(values,
                           beforeUpdate(values.mark # None, values.mark, now))
       IN  IF ~MarkValid(values.mark)
           THEN /\ Respond("grade", 400, Some(rq.id), FALSE)
                /\ UNCHANGED submissions
           ELSE /\ submissions' =
                     [submissions EXCEPT ![rq.id] = WriteFields(@, Stored(hooked))]
                /\ Respond("grade", 200, Some(rq.id), FALSE)
    /\ reqs' = [reqs EXCEPT ![r] = Idle]
    /\ UNCHANGED <<db, emails, proc, lecturers, students, classrooms, assignments, now, nextFile>>

\* ------------------------------------------------- the submission workflow

\* The store the workflow runs on: two lecturers and one student have signed
\* up, each lecturer has created one classroom and one assignment in it, the
\* first with a due date and the second without, and nothing is submitted.
Init ==
    /\ lecturers = {1, 2}
    /\ students = {1}
    /\ emails = [lecturer |-> <<Ann, Bob>>, student |-> <<Ann>>]
    /\ proc = Serving
    /\ classrooms =
         << [class_name |-> "CS101", classroom_code |-> <<"A","A","A","A","A","A">>,
             created_by |-> 1],
            [class_name |-> "MATH1", classroom_code |-> <<"B","B","B","B","B","B">>,
             created_by |-> 2] >>
    /\ assignments =
         << [assignment_title |-> "HW1", classroom_id |-> 1, due_date |-> Some(0),
             created_by |-> 1, created_at |-> 0],
            [assignment_title |-> "HW2", classroom_id |-> 2, due_date |-> None,
             created_by |-> 2, created_at |-> 0] >>
    /\ submissions = <<>>
    /\ now = 0
    /\ nextFile = 0
    /\ reqs = [r \in Reqs |-> Idle]
    /\ resp = NoResp
    /\ db = <<>>

Submit(slots) ==
    \/ \E r \in slots, classroomId \in ClassroomIds, assignmentId \in AssignmentIds,
          studentId \in StudentIdInputs, isFileUpload \in BOOLEAN,
          hasFileData \in BOOLEAN :
          SubmitRead(r, classroomId, assignmentId, studentId, isFileUpload, hasFileData)
    \/ \E r \in slots : SubmitWrite(r)

Grade(slots, marks, feedbacks) ==
    \/ \E r \in slots, lecturer \in lecturers, classroomId \in ClassroomIds,
          assignmentId \in AssignmentIds, submissionId \in SubmissionIds :
          GradeRead(r, lecturer, classroomId, assignmentId, submissionId)
    \/ \E r \in slots, mark \in marks, feedback \in feedbacks :
          GradeWrite(r, mark, feedback)

\* Requests overlap: up to MaxInFlight of them are between read and write.
Next == Tick \/ Submit(Reqs) \/ Grade(Reqs, MarkInputs, FeedbackInputs)

Spec == Init /\ [][Next]_vars

\* One request at a time: each call is answered before the next arrives.
NextSerial == Tick \/ Submit({1}) \/ Grade({1}, MarkInputs, FeedbackInputs)

SpecSerial == Init /\ [][NextSerial]_vars

\* Grading under load: grade calls overlap each other while submit calls
\* arrive one at a time.
NextGrade == Tick \/ Submit({1}) \/ Grade(Reqs, MarkInputs, FeedbackInputs)

SpecGrade == Init /\ [][NextGrade]_vars

\* ------------------------------------------------------ classroom registry
\* POST /api/classrooms

LongName == "xxxxxxxxxxxxxxxxxxxxxxxxxxxxxxxxxxxxxxxxxxxxxxxxxxxxxxxxxxxxxxxxxxxxxxxxxxxxxxxxxxxxxxxxxxxxxxxxxxxxx"

NameInputs == {None, Some(""), Some("X"), Some("CS101"), Some("Algebra"),
               Some(LongName)}

Rep(c, n) == [i \in 1..n |-> c]

CodeInputs == {None, Some(<<>>), Some(Rep("a", CodeMinLen)),
               Some(Rep("A", CodeMinLen)), Some(Rep("b", CodeMaxLen)),
               Some(Rep("1", CodeMinLen + 1)),
               Some(Rep("a", CodeMinLen - 1)), Some(Rep("B", CodeMaxLen + 1))}

\* The validators of the Classroom model: class_name notEmpty and
\* len [2, 100], classroom_code not null and len [6, 10].
ClassroomValid(values) ==
    /\ Len(values.class_name) >= NameMinLen
    /\ Len(values.class_name) <= NameMaxLen
    /\ values.classroom_code # None
    /\ Len(Val(values.classroom_code)) >= CodeMinLen
    /\ Len(Val(values.classroom_code)) <= CodeMaxLen

\* A table without the unique index: no insert is rejected.
codeTaken_NoIndex(code) == FALSE

\* The unique index on classrooms.classroom_code rejects the insert.
codeTaken(code) ==
    \E i \in DOMAIN classrooms : classrooms[i].classroom_code = code

\* The whole handler: Classroom.create validates, then inserts; both
\* required fields are checked before it is called.
CreateClassroom(lecturer, class_name, classroom_code) ==
    /\ IF class_name = None \/ Val(class_name) = ""
       THEN /\ Respond("createClassroom", 400, None, FALSE)
            /\ UNCHANGED classrooms
       ELSE IF classroom_code = None \/ Val(classroom_code) = <<>>
       THEN /\ Respond("createClassroom", 400, None, FALSE)
            /\ UNCHANGED classrooms
       ELSE LET values == [class_name |-> Val(class_name),
                           classroom_code |-> Some(toUpperCase(Val(classroom_code))),
                           created_by |-> lecturer]
            IN  IF ~ClassroomValid(values)
                THEN /\ Respond("createClassroom", 400, None, FALSE)
                     /\ UNCHANGED classrooms
                ELSE IF codeTaken(Val(values.classroom_code))
                THEN /\ Respond("createClassroom", 409, None, FALSE)
                     /\ UNCHANGED classrooms
                ELSE /\ Len(classrooms) < MaxClassrooms
                     /\ classrooms' = Append(classrooms,
                            [values EXCEPT !.classroom_code = Val(@)])
                     /\ Respond("createClassroom", 201,
                                Some(Len(classrooms) + 1), FALSE)
    /\ UNCHANGED <<db, emails, proc, lecturers, students, assignments, submissions, now,
                   nextFile, reqs>>

\* The same handler split at its await, for calls that overlap.  Up to the
\* query: the two required fields and the model's validators.
CreateClassroomBegin(r, lecturer, class_name, classroom_code) ==
    /\ reqs[r].pc = "idle"
    /\ IF class_name = None \/ Val(class_name) = ""
       THEN /\ Respond("createClassroom", 400, None, FALSE)
            /\ UNCHANGED reqs
       ELSE IF classroom_code = None \/ Val(classroom_code) = <<>>
       THEN /\ Respond("createClassroom", 400, None, FALSE)
            /\ UNCHANGED reqs
       ELSE LET values == [class_name |-> Val(class_name),
                           classroom_code |-> Some(toUpperCase(Val(classroom_code))),
                           created_by |-> lecturer]
            IN  IF ~ClassroomValid(values)
                THEN /\ Respond("createClassroom", 400, None, FALSE)
                     /\ UNCHANGED reqs
                ELSE /\ reqs' = [reqs EXCEPT ![r] =
                            [pc |-> "createInsert",
                             values |-> [values EXCEPT !.classroom_code = Val(@)]]]
                     /\ UNCHANGED resp
    /\ UNCHANGED <<db, emails, proc, lecturers, students, classrooms, assignments, submissions,
                   now, nextFile>>

\* The INSERT: the unique index on classroom_code decides it in one step.
CreateClassroomInsert(r) ==
    /\ reqs[r].pc = "createInsert"
    /\ IF codeTaken(reqs[r].values.classroom_code)
       THEN /\ Respond("createClassroom", 409, None, FALSE)
            /\ UNCHANGED classrooms
       ELSE /\ Len(classrooms) < MaxClassrooms
            /\ classrooms' = Append(classrooms, reqs[r].values)
            /\ Respond("createClassroom", 201, Some(Len(classrooms) + 1), FALSE)
    /\ reqs' = [reqs EXCEPT ![r] = Idle]
    /\ UNCHANGED <<db, emails, proc, lecturers, students, assignments, submissions, now, nextFile>>

\* The store before any classroom exists: two lecturers have signed up.
InitClassroom ==
    /\ lecturers = {1, 2}
    /\ students = {}
    /\ emails = [lecturer |-> <<Ann, Bob>>, student |-> <<>>]
    /\ proc = Serving
    /\ classrooms = <<>>
    /\ assignments = <<>>
    /\ submissions = <<>>
    /\ now = 0
    /\ nextFile = 0
    /\ reqs = [r \in Reqs |-> Idle]
    /\ resp = NoResp
    /\ db = <<>>

NextClassroom ==
    \E lecturer \in lecturers, class_name \in NameInputs,
       classroom_code \in CodeInputs :
       CreateClassroom(lecturer, class_name, classroom_code)

SpecClassroom == InitClassroom /\ [][NextClassroom]_vars

\* Creations that overlap: up to MaxInFlight are between validation and INSERT.
NextRegistry ==
    \/ \E r \in Reqs, lecturer \in lecturers, class_name \in NameInputs,
          classroom_code \in CodeInputs :
          CreateClassroomBegin(r, lecturer, class_name, classroom_code)
    \/ \E r \in Reqs : CreateClassroomInsert(r)

SpecRegistry == InitClassroom /\ [][NextRegistry]_vars

\* -------------------------------------------------------- classroom lookup
\* GET /api/classrooms/:id and GET /api/classrooms/code/:classroomCode

\* req.user, as authenticateToken takes it from the token.
UserInputs ==
    {[type |-> "lecturer", id |-> l] : l \in lecturers} \cup
    {[type |-> "student", id |-> s] : s \in students}

\* The route parameter is a string that is not empty.
CodeParams == {Val(c) : c \in CodeInputs \ {None, Some(<<>>)}}

\* An answer that lets the caller see a classroom's id as well.
getClassroomById_Forbidden(lecturer, id) ==
    IF id \notin DOMAIN classrooms
    THEN [status |-> 404,
          message |-> "Classroom not found or you do not have access to it.",
          classroom |-> None]
    ELSE IF classrooms[id].created_by # lecturer
    THEN [status |-> 403,
          message |-> "You do not have permission to access this classroom.",
          classroom |-> None]
    ELSE [status |-> 200, message |-> "", classroom |-> Some(classrooms[id])]

\* The answer of GET /api/classrooms/:id to a lecturer.
getClassroomById(lecturer, id) ==
    IF ownsClassroom(lecturer, id)
    THEN [status |-> 200, message |-> "", classroom |-> Some(classrooms[id])]
    ELSE [status |-> 404,
          message |-> "Classroom not found or you do not have access to it.",
          classroom |-> None]

\* resp names the id that was asked for.
GetClassroomById(lecturer, id) ==
    /\ Respond("getClassroom", getClassroomById(lecturer, id).status, Some(id), FALSE)
    /\ UNCHANGED <<db, emails, proc, lecturers, students, classrooms, assignments, submissions,
                   now, nextFile, reqs>>

\* Classroom.findOne({ where: { classroom_code } }): the row's id, or None.
findClassroomByCode(code) ==
    LET hits == {i \in DOMAIN classrooms : classrooms[i].classroom_code = code}
    IN  IF hits = {} THEN None
        ELSE Some(CHOOSE i \in hits : \A j \in hits : i <= j)

\* An answer that shows every classroom to every caller.
getClassroomByCode_Open(user, classroomCode) ==
    LET found == findClassroomByCode(toUpperCase(classroomCode))
    IN  IF found = None
        THEN [status |-> 404, classroom |-> None]
        ELSE [status |-> 200, classroom |-> found]

\* The answer of GET /api/classrooms/code/:classroomCode.
getClassroomByCode(user, classroomCode) ==
    LET found == findClassroomByCode(toUpperCase(classroomCode))
    IN  IF found = None
        THEN [status |-> 404, classroom |-> None]
        ELSE IF user.type = "lecturer" /\ classrooms[Val(found)].created_by # user.id
        THEN [status |-> 403, classroom |-> None]
        ELSE [status |-> 200, classroom |-> found]

GetClassroomByCode(user, classroomCode) ==
    /\ LET answer == getClassroomByCode(user, classroomCode)
       IN  Respond("getClassroomByCode", answer.status, answer.classroom, FALSE)
    /\ UNCHANGED <<db, emails, proc, lecturers, students, classrooms, assignments, submissions,
                   now, nextFile, reqs>>

\* The store before any classroom exists: two lecturers and one student
\* have signed up.
InitLookup ==
    /\ lecturers = {1, 2}
    /\ students = {1}
    /\ emails = [lecturer |-> <<Ann, Bob>>, student |-> <<Ann>>]
    /\ proc = Serving
    /\ classrooms = <<>>
    /\ assignments = <<>>
    /\ submissions = <<>>
    /\ now = 0
    /\ nextFile = 0
    /\ reqs = [r \in Reqs |-> Idle]
    /\ resp = NoResp
    /\ db = <<>>

NextLookup ==
    \/ NextClassroom
    \/ \E lecturer \in lecturers, id \in ClassroomIds :
          GetClassroomById(lecturer, id)
    \/ \E user \in UserInputs, classroomCode \in CodeParams :
          GetClassroomByCode(user, classroomCode)

SpecLookup == InitLookup /\ [][NextLookup]_vars

\* -------------------------------------------------------------------- join
\* POST /api/classrooms/join

\* A JSON value of the body that names a student: the number n, or the
\* string of n's digits.
Num(n) == [t |-> "number", v |-> n]
Str(n) == [t |-> "string", v |-> n]

\* Student 1 has signed up, student 2 has not.
JoinStudentInputs == {None, Some(Num(1)), Some(Str(1)), Some(Num(2))}

\* Array.prototype.includes: the same value of the same type.
includes(studentIds, studentId) ==
    \E i \in DOMAIN studentIds : studentIds[i] = studentId

\* db.classrooms.find(c => c.secretCode === code): the first match, or None.
findInDB(code) ==
    LET hits == {i \in DOMAIN db : db[i].secretCode = code}
    IN  IF hits = {} THEN None
        ELSE Some(CHOOSE i \in hits : \A j \in hits : i <= j)

\* The whole handler: it awaits nothing, readDB and writeDB are synchronous.
Join(secretCode, studentId) ==
    /\ IF \/ secretCode = None
          \/ Val(secretCode) = <<>>
          \/ studentId = None
          \/ Val(studentId) = Num(0)
       THEN /\ Respond("join", 400, None, FALSE)
            /\ UNCHANGED db
       ELSE LET classroomToJoin == findInDB(toUpperCase(Val(secretCode)))
            IN  IF classroomToJoin = None
                THEN /\ Respond("join", 404, None, FALSE)
                     /\ UNCHANGED db
                ELSE IF includes(db[Val(classroomToJoin)].studentIds, Val(studentId))
                THEN /\ Respond("join", 409, classroomToJoin, FALSE)
                     /\ UNCHANGED db
                ELSE /\ db' = [db EXCEPT ![Val(classroomToJoin)].studentIds =
                                   Append(@, Val(studentId))]
                     /\ Respond("join", 200, classroomToJoin, FALSE)
    /\ UNCHANGED <<emails, proc, lecturers, students, classrooms, assignments,
                   submissions, now, nextFile, reqs>>

\* db.json as the server finds it: absent or empty, or holding a classroom
\* that was written to it before (this server only ever adds students).
DBFiles == {<<>>, <<[secretCode |-> Rep("A", CodeMinLen), studentIds |-> <<>>]>>}

InitJoin ==
    /\ lecturers = {1, 2}
    /\ students = {1}
    /\ emails = [lecturer |-> <<Ann, Bob>>, student |-> <<Ann>>]
    /\ proc = Serving
    /\ classrooms = <<>>
    /\ assignments = <<>>
    /\ submissions = <<>>
    /\ now = 0
    /\ nextFile = 0
    /\ reqs = [r \in Reqs |-> Idle]
    /\ resp = NoResp
    /\ db \in DBFiles

NextJoin ==
    \/ NextClassroom
    \/ \E secretCode \in CodeInputs, studentId \in JoinStudentInputs :
          Join(secretCode, studentId)

SpecJoin == InitJoin /\ [][NextJoin]_vars

\* ------------------------------------------------------- create assignment
\* POST /api/classrooms/:classroomId/assignments

LongTitle == "yyyyyyyyyyyyyyyyyyyyyyyyyyyyyyyyyyyyyyyyyyyyyyyyyyyyyyyyyyyyyyyyyyyyyyyyyyyyyyyyyyyyyyyyyyyyyyyyyyyyyyyyyyyyyyyyyyyyyyyyyyyyyyyyyyyyyyyyyyyyyyyyyyyyyyyyyyyyyyyyyyyyyyyyyyyyyyyyyyyyyyyyyyyyyyyyyyyyyyyyy"

TitleInputs == {None, Some(""), Some("H"), Some("HW3"), Some(LongTitle)}
DueDateInputs == {None, Some(0 - 2), Some(0), Some(1), Some(MaxTime + 1)}

\* The moment models/Assignment.js was loaded, and the date string taken
\* then: the start of that day, which lies before the moment itself.
LoadTime == 0
toDateString(date) == date - 1

\* The validators of the Assignment model: assignment_title notEmpty and
\* len [2, 200]; due_date, when given, after the date string taken when the
\* model was defined.
AssignmentValid(values) ==
    /\ Len(values.assignment_title) >= TitleMinLen
    /\ Len(values.assignment_title) <= TitleMaxLen
    /\ values.due_date # None => Val(values.due_date) > toDateString(LoadTime)

\* The whole handler.  It awaits the classroom before it creates the
\* assignment, but no route changes or removes a classroom in between.
\* The model has timestamps: the row's created_at is the time of the INSERT.
CreateAssignment(lecturer, classroomId, assignment_title, due_date) ==
    /\ IF assignment_title = None \/ Val(assignment_title) = ""
       THEN /\ Respond("createAssignment", 400, None, FALSE)
            /\ UNCHANGED assignments
       ELSE IF ~ownsClassroom(lecturer, classroomId)
       THEN /\ Respond("createAssignment", 404, None, FALSE)
            /\ UNCHANGED assignments
       ELSE LET values == [assignment_title |-> Val(assignment_title),
                           due_date |-> due_date,
                           created_by |-> lecturer,
                           classroom_id |-> classroomId,
                           created_at |-> now]
            IN  IF ~AssignmentValid(values)
                THEN /\ Respond("createAssignment", 400, None, FALSE)
                     /\ UNCHANGED assignments
                ELSE /\ Len(assignments) < MaxAssignments
                     /\ assignments' = Append(assignments, values)
                     /\ Respond("createAssignment", 201,
                                Some(Len(assignments) + 1), FALSE)
    /\ UNCHANGED <<db, emails, proc, lecturers, students, classrooms, submissions, now,
                   nextFile, reqs>>

NextAssignment ==
    \/ Tick
    \/ \E lecturer \in lecturers, classroomId \in ClassroomIds,
          assignment_title \in TitleInputs, due_date \in DueDateInputs :
          CreateAssignment(lecturer, classroomId, assignment_title, due_date)

\* Assignments are created in the two classrooms of Init as time passes.
SpecAssignment == Init /\ [][NextAssignment]_vars

\* ---------------------------------------------------------- code generator
\* DatabaseHelpers.generateUniqueClassroomCode

\* Math.random().toString(36) is "0." followed by the base-36 digits of the
\* fraction, or "0" alone for the number 0; the digits are the input here.
FractionInputs == {<<>>, <<"9">>, Rep("a", 6), Rep("a", 7), Rep("b", 10)}

randomString(fraction) ==
    IF fraction = <<>> THEN <<"0">> ELSE <<"0", ".">> \o fraction

\* String.prototype.substring(start, end), indices from 0, end excluded.
substring(str, start, end) ==
    LET last == IF end < Len(str) THEN end ELSE Len(str)
    IN  IF start >= last THEN <<>> ELSE SubSeq(str, start + 1, last)

SubstringStart == 2
SubstringEnd == 8

\* Math.random().toString(36).substring(2, 8).toUpperCase()
randomCode(fraction) ==
    toUpperCase(substring(randomString(fraction), SubstringStart, SubstringEnd))

\* A call of the generator begins: exists = true, no code yet.
GenerateStart(r) ==
    /\ reqs[r].pc = "idle"
    /\ reqs' = [reqs EXCEPT ![r] = [pc |-> "generate", code |-> <<>>]]
    /\ UNCHANGED <<db, emails, proc, lecturers, students, classrooms, assignments, submissions,
                   now, nextFile, resp>>

\* The head of one turn of while (exists): a code is drawn.
GenerateCode(r, fraction) ==
    /\ reqs[r].pc = "generate"
    /\ reqs' = [reqs EXCEPT ![r] = [pc |-> "lookup", code |-> randomCode(fraction)]]
    /\ UNCHANGED <<db, emails, proc, lecturers, students, classrooms, assignments, submissions,
                   now, nextFile, resp>>

\* The rest of the turn: Classroom.findOne({ where: { classroom_code } })
\* answers, exists = !!existingClassroom, and the loop goes round or ends.
GenerateLookup(r) ==
    /\ reqs[r].pc = "lookup"
    /\ LET exists == codeTaken(reqs[r].code)
       IN  reqs' = [reqs EXCEPT ![r].pc = IF exists THEN "generate" ELSE "generated"]
    /\ UNCHANGED <<db, emails, proc, lecturers, students, classrooms, assignments, submissions,
                   now, nextFile, resp>>

\* return code
GenerateReturn(r) ==
    /\ reqs[r].pc = "generated"
    /\ reqs' = [reqs EXCEPT ![r] = Idle]
    /\ UNCHANGED <<db, emails, proc, lecturers, students, classrooms, assignments, submissions,
                   now, nextFile, resp>>

GenerateTurn ==
    \/ \E r \in Reqs, fraction \in FractionInputs : GenerateCode(r, fraction)
    \/ \E r \in Reqs : GenerateLookup(r)

NextGenerate ==
    \/ NextClassroom
    \/ \E r \in Reqs : GenerateStart(r)
    \/ GenerateTurn
    \/ \E r \in Reqs : GenerateReturn(r)

\* The generator beside the creation of classrooms.  A call that is inside
\* its loop goes on: the promise it awaits settles and the loop takes its
\* next turn.
SpecGenerate == InitClassroom /\ [][NextGenerate]_vars /\ WF_vars(GenerateTurn)

\* ------------------------------------------------ assignments of a classroom
\* GET /api/classrooms/:classroomId/assignments/:assignmentId and
\* GET /api/classrooms/:classroomId/assignments

\* An answer that looks the assignment up by its id alone.
getAssignmentById_AnyClassroom(lecturer, classroomId, assignmentId) ==
    IF ~ownsClassroom(lecturer, classroomId)
    THEN [status |-> 404, assignment |-> None]
    ELSE IF assignmentId \notin DOMAIN assignments
    THEN [status |-> 404, assignment |-> None]
    ELSE [status |-> 200, assignment |-> Some(assignmentId)]

\* The answer of the route: the classroom owned by the caller, then the
\* assignment of that id in that classroom.
getAssignmentById(lecturer, classroomId, assignmentId) ==
    IF ~ownsClassroom(lecturer, classroomId)
    THEN [status |-> 404, assignment |-> None]
    ELSE IF ~assignmentInClassroom(assignmentId, classroomId)
    THEN [status |-> 404, assignment |-> None]
    ELSE [status |-> 200, assignment |-> Some(assignmentId)]

\* The two reads are awaited one after the other; no route changes the
\* owner of a classroom or the classroom of an assignment in between.
GetAssignmentById(lecturer, classroomId, assignmentId) ==
    /\ LET answer == getAssignmentById(lecturer, classroomId, assignmentId)
       IN  Respond("getAssignment", answer.status, answer.assignment, FALSE)
    /\ UNCHANGED <<db, emails, proc, lecturers, students, classrooms, assignments, submissions,
                   now, nextFile, reqs>>


\* What the calls of a course carry: a name or none, two codes that are
\* accepted and one that is too short, a title or none, no due date or one
\* that is refused.
CourseNames == {None, Some("CS101")}
CourseCodes == {Some(Rep("a", CodeMinLen)), Some(Rep("b", CodeMaxLen)),
                Some(Rep("a", CodeMinLen - 1))}
CourseTitles == {None, Some("HW3")}
CourseDueDates == {None, Some(0 - 2)}

\* The rows a findAll selects, in an order the store may return them in
\* under ORDER BY ... DESC: later first, rows of equal time either way.
Orderings(ids, at) ==
    {seq \in [1..Cardinality(ids) -> ids] :
        \A i, j \in 1..Cardinality(ids) :
            i < j => seq[i] # seq[j] /\ at[seq[i]] >= at[seq[j]]}

\* Assignment.findAll({ where: { classroom_id } }) selects these rows.
assignmentsOf(classroomId) ==
    {a \in DOMAIN assignments : assignments[a].classroom_id = classroomId}

\* GET /api/classrooms/:classroomId/assignments: the classroom owned by the
\* caller, then its assignments, order: [['created_at', 'DESC']].
ListAssignments(lecturer, classroomId) ==
    /\ IF ~ownsClassroom(lecturer, classroomId)
       THEN Respond("listAssignments", 404, None, FALSE)
       ELSE \E seq \in Orderings(assignmentsOf(classroomId),
                                 [a \in DOMAIN assignments |->
                                     assignments[a].created_at]) :
                Respond("listAssignments", 200, Some(seq), FALSE)
    /\ UNCHANGED <<db, emails, proc, lecturers, students, classrooms, assignments,
                   submissions, now, nextFile, reqs>>

\* The columns of assignment_submissions: the attributes of the model, its
\* id and its two timestamps.
SubmissionColumns ==
    {"id", "assignment_file", "file_data", "mark", "student_id",
     "assignment_id", "status", "feedback", "graded_at", "graded_by",
     "created_at", "updated_at"}

\* order: [['submitted_at', 'DESC']]
SubmissionOrder == "submitted_at"

\* AssignmentSubmission.findAll({ where: { assignment_id } }) selects these.
submissionsOf(assignmentId) ==
    {i \in DOMAIN submissions : submissions[i].assignment_id = assignmentId}

\* GET /api/classrooms/:classroomId/assignments/:assignmentId/submissions:
\* the classroom owned by the caller, the assignment of that classroom, then
\* the submissions.  The store refuses a query that orders by a column the
\* table does not have, and the handler answers every error with 500.
ListSubmissions(lecturer, classroomId, assignmentId) ==
    /\ IF ~ownsClassroom(lecturer, classroomId)
       THEN Respond("listSubmissions", 404, None, FALSE)
       ELSE IF ~assignmentInClassroom(assignmentId, classroomId)
       THEN Respond("listSubmissions", 404, None, FALSE)
       ELSE IF SubmissionOrder \notin SubmissionColumns
       THEN Respond("listSubmissions", 500, None, FALSE)
       ELSE \E seq \in Orderings(submissionsOf(assignmentId),
                                 [i \in DOMAIN submissions |->
                                     submissions[i][SubmissionOrder]]) :
                Respond("listSubmissions", 200, Some(seq), FALSE)
    /\ UNCHANGED <<db, emails, proc, lecturers, students, classrooms, assignments,
                   submissions, now, nextFile, reqs>>

\* Listings beside the creation of assignments and submits that arrive one
\* at a time, in the two classrooms of Init.
NextListing ==
    \/ Tick
    \/ \E lecturer \in lecturers, classroomId \in ClassroomIds,
          assignment_title \in CourseTitles, due_date \in CourseDueDates :
          CreateAssignment(lecturer, classroomId, assignment_title, due_date)
    \/ Submit({1})
    \/ \E lecturer \in lecturers, classroomId \in ClassroomIds :
          ListAssignments(lecturer, classroomId)
    \/ \E lecturer \in lecturers, classroomId \in ClassroomIds,
          assignmentId \in AssignmentIds :
          ListSubmissions(lecturer, classroomId, assignmentId)

SpecListing == Init /\ [][NextListing]_vars

\* The store before any classroom exists; then classrooms are created,
\* assignments are created in them and single assignments are read.
NextCourse ==
    \/ \E lecturer \in lecturers, class_name \in CourseNames,
          classroom_code \in CourseCodes :
          CreateClassroom(lecturer, class_name, classroom_code)
    \/ \E lecturer \in lecturers, classroomId \in ClassroomIds,
          assignment_title \in CourseTitles, due_date \in CourseDueDates :
          CreateAssignment(lecturer, classroomId, assignment_title, due_date)
    \/ \E lecturer \in lecturers, classroomId \in ClassroomIds,
          assignmentId \in AssignmentIds :
          GetAssignmentById(lecturer, classroomId, assignmentId)

SpecCourse == InitLookup /\ [][NextCourse]_vars

\* ------------------------------------------------------------------ signup
\* POST /api/lecturers/signup and POST /api/students/signup

\* Rows of the lecturers table, and of the students table.
MaxAccounts == 2

\* Lecturer / Student: name len [2, 100], password len [6, 100].
AccountNameMinLen == 2
AccountNameMaxLen == 100
PasswordMinLen == 6
PasswordMaxLen == 100

Kinds == {"lecturer", "student"}

AccountNameInputs == {None, Some("D"), Some("Dana")}
EmailInputs == {None, Some(<<>>), Some(<<"a", "x">>), Some(Ann), Some(Bob)}
PasswordInputs == {None, Some("12345"), Some("secret")}

\* validate: { isEmail: true }, as far as the addresses here can differ: one
\* "@", with something before it and something after it.
isEmail(email) ==
    LET ats == {i \in DOMAIN email : email[i] = "@"}
    IN  /\ Cardinality(ats) = 1
        /\ \A i \in ats : 1 < i /\ i < Len(email)

\* The validators of the Lecturer and the Student model.
AccountValid(values) ==
    /\ Len(values.name) >= AccountNameMinLen
    /\ Len(values.name) <= AccountNameMaxLen
    /\ isEmail(values.email)
    /\ Len(values.password) >= PasswordMinLen
    /\ Len(values.password) <= PasswordMaxLen

\* Model.findOne({ where: { email } }): the row's id, or None.
findByEmail(kind, email) ==
    LET hits == {i \in DOMAIN emails[kind] : emails[kind][i] = email}
    IN  IF hits = {} THEN None
        ELSE Some(CHOOSE i \in hits : \A j \in hits : i <= j)

\* A table without the unique index: no insert is rejected.
emailTaken_NoIndex(kind, email) == FALSE

\* The unique index on the email column rejects the insert.
emailTaken(kind, email) ==
    \E i \in DOMAIN emails[kind] : emails[kind][i] = email

\* Up to the await of findOne's answer: the required fields, then the
\* lookup of the email.  resp names the row the lookup found.
SignupBegin(r, kind, name, email, password) ==
    /\ reqs[r].pc = "idle"
    /\ IF \/ name = None \/ Val(name) = ""
          \/ email = None \/ Val(email) = <<>>
          \/ password = None \/ Val(password) = ""
       THEN /\ Respond(kind, 400, None, FALSE)
            /\ UNCHANGED reqs
       ELSE IF findByEmail(kind, Val(email)) # None
       THEN /\ Respond(kind, 409, findByEmail(kind, Val(email)), FALSE)
            /\ UNCHANGED reqs
       ELSE /\ reqs' = [reqs EXCEPT ![r] =
                     [pc |-> "signupCreate",
                      kind |-> kind,
                      values |-> [name |-> Val(name), email |-> Val(email),
                                  password |-> Val(password)]]]
            /\ UNCHANGED resp
    /\ UNCHANGED <<db, emails, proc, lecturers, students, classrooms, assignments,
                   submissions, now, nextFile>>

\* Model.create: validation, the hook that hashes the password, then the
\* INSERT, which the unique index decides in one step.  The handler answers
\* SequelizeValidationError with 400 and SequelizeUniqueConstraintError
\* with 409.
SignupCreate(r) ==
    /\ reqs[r].pc = "signupCreate"
    /\ LET kind == reqs[r].kind
           values == reqs[r].values
       IN  IF ~AccountValid(values)
           THEN /\ Respond(kind, 400, None, FALSE)
                /\ UNCHANGED <<emails, lecturers, students>>
           ELSE IF emailTaken(kind, values.email)
           THEN /\ Respond(kind, 409, None, FALSE)
                /\ UNCHANGED <<emails, lecturers, students>>
           ELSE /\ Len(emails[kind]) < MaxAccounts
                /\ emails' = [emails EXCEPT ![kind] = Append(@, values.email)]
                /\ lecturers' = IF kind = "lecturer"
                                THEN lecturers \cup {Len(emails[kind]) + 1}
                                ELSE lecturers
                /\ students' = IF kind = "student"
                               THEN students \cup {Len(emails[kind]) + 1}
                               ELSE students
                /\ Respond(kind, 201, Some(Len(emails[kind]) + 1), FALSE)
    /\ reqs' = [reqs EXCEPT ![r] = Idle]
    /\ UNCHANGED <<db, proc, classrooms, assignments, submissions, now, nextFile>>

\* The store before anyone has signed up.
InitSignup ==
    /\ lecturers = {}
    /\ students = {}
    /\ emails = [lecturer |-> <<>>, student |-> <<>>]
    /\ proc = Serving
    /\ classrooms = <<>>
    /\ assignments = <<>>
    /\ submissions = <<>>
    /\ now = 0
    /\ nextFile = 0
    /\ reqs = [r \in Reqs |-> Idle]
    /\ resp = NoResp
    /\ db = <<>>

\* Signups overlap: up to MaxInFlight are between the lookup and the INSERT.
NextSignup ==
    \/ \E r \in Reqs, kind \in Kinds, name \in AccountNameInputs,
          email \in EmailInputs, password \in PasswordInputs :
          SignupBegin(r, kind, name, email, password)
    \/ \E r \in Reqs : SignupCreate(r)

SpecSignup == InitSignup /\ [][NextSignup]_vars

\* ---------------------------------------------------------------- start-up
\* startServer (server.js), runDatabaseSetup (setupDatabase.js) and
\* initializeDatabase (database.js), which both of them await first.

Programs == {"server", "setup"}

\* process.argv.slice(2)
ArgInputs == SUBSET {"--seed", "-s", "--force"}

\* args.includes('--seed') || args.includes('-s')
shouldSeed_Always(args) == TRUE

shouldSeed(args) == "--seed" \in args \/ "-s" \in args

\* The program is run: for the first time, or again after it has exited.
\* Both programs begin by calling initializeDatabase.
Run(p, args) ==
    /\ proc[p].pc \in {"off", "exit0", "exit1"}
    /\ proc' = [proc EXCEPT ![p] =
                  [pc |-> "authenticate", dbInitialized |-> None, args |-> args]]
    /\ UNCHANGED <<db, emails, lecturers, students, classrooms, assignments,
                   submissions, now, nextFile, reqs, resp>>

\* await sequelize.authenticate(): it resolves, or it throws and the catch
\* block of initializeDatabase returns false.
Authenticate(p, ok) ==
    /\ proc[p].pc = "authenticate"
    /\ proc' = [proc EXCEPT ![p] =
                  IF ok THEN [@ EXCEPT !.pc = "sync"]
                  ELSE [@ EXCEPT !.pc = "returned", !.dbInitialized = Some(FALSE)]]
    /\ UNCHANGED <<db, emails, lecturers, students, classrooms, assignments,
                   submissions, now, nextFile, reqs, resp>>

\* await sequelize.sync({ force, alter }): it resolves and true is returned,
\* or it throws and false is returned.  force (development with RESET_DB)
\* drops the tables and creates them anew; db.json is no table.
Sync(p, ok, force) ==
    /\ proc[p].pc = "sync"
    /\ proc' = [proc EXCEPT ![p] =
                  [@ EXCEPT !.pc = "returned", !.dbInitialized = Some(ok)]]
    /\ IF ok /\ force
       THEN /\ lecturers' = {}
            /\ students' = {}
            /\ emails' = [lecturer |-> <<>>, student |-> <<>>]
            /\ classrooms' = <<>>
            /\ assignments' = <<>>
            /\ submissions' = <<>>
       ELSE UNCHANGED <<emails, lecturers, students, classrooms, assignments,
                        submissions>>
    /\ UNCHANGED <<db, now, nextFile, reqs, resp>>

\* startServer after the await: process.exit(1) when dbInitialized is
\* false, app.listen otherwise.
StartServer ==
    /\ proc.server.pc = "returned"
    /\ proc' = [proc EXCEPT !.server.pc =
                  IF proc.server.dbInitialized = Some(TRUE)
                  THEN "listening" ELSE "exit1"]
    /\ UNCHANGED <<db, emails, lecturers, students, classrooms, assignments,
                   submissions, now, nextFile, reqs, resp>>

\* runDatabaseSetup after the await: process.exit(1) when dbInitialized is
\* false; otherwise seedDatabase is called when the arguments ask for it, and
\* process.exit(0) follows when they do not.
RunDatabaseSetup ==
    /\ proc.setup.pc = "returned"
    /\ proc' = [proc EXCEPT !.setup.pc =
                  IF proc.setup.dbInitialized # Some(TRUE) THEN "exit1"
                  ELSE IF shouldSeed(proc.setup.args) THEN "seeding"
                  ELSE "exit0"]
    /\ UNCHANGED <<db, emails, lecturers, students, classrooms, assignments,
                   submissions, now, nextFile, reqs, resp>>

\* The emails of the two lecturers and the three students of the seed.
John == <<"j", "@", "u">>
Sarah == <<"s", "@", "u">>
Alice == <<"a", "@", "s">>
BobWilson == <<"b", "@", "s">>
Charlie == <<"c", "@", "s">>

\* The due dates of the seed: 7 and 10 days from now.
SeedDue1 == 7
SeedDue2 == 10
\* The mark of the seed's graded submission, 85.5.
SeedMark == 85500
\* The two files of the seed; no submit call brings them.
SeedFile1 == 0 - 1
SeedFile2 == 0 - 2

\* await seedDatabase(): two lecturers, three students, a classroom of each
\* lecturer, an assignment in each classroom and two submissions to the
\* first assignment, one of them graded.  The first insert is refused when
\* the seed's first lecturer is stored already, or the store fails (ok is
\* false): seedDatabase throws and the catch block exits with 1.
SeedDatabase(ok) ==
    /\ proc.setup.pc = "seeding"
    /\ IF ~ok \/ emailTaken("lecturer", John)
       THEN /\ proc' = [proc EXCEPT !.setup.pc = "exit1"]
            /\ UNCHANGED <<emails, lecturers, students, classrooms, assignments,
                           submissions>>
       ELSE LET l == Len(emails.lecturer)
                s == Len(emails.student)
                c == Len(classrooms)
                a == Len(assignments)
            IN  /\ proc' = [proc EXCEPT !.setup.pc = "exit0"]
                /\ emails' = [lecturer |-> emails.lecturer \o <<John, Sarah>>,
                              student |-> emails.student \o
                                              <<Alice, BobWilson, Charlie>>]
                /\ lecturers' = lecturers \cup {l + 1, l + 2}
                /\ students' = students \cup {s + 1, s + 2, s + 3}
                /\ classrooms' = classrooms \o
                     << [class_name |-> "Introduction to Programming",
                         classroom_code |-> <<"C", "S", "1", "0", "1", "A">>,
                         created_by |-> l + 1],
                        [class_name |-> "Calculus I",
                         classroom_code |-> <<"M", "A", "T", "H", "1", "0", "1">>,
                         created_by |-> l + 2] >>
                /\ assignments' = assignments \o
                     << [assignment_title |-> "Python Basics - Variables and Data Types",
                         classroom_id |-> c + 1, due_date |-> Some(now + SeedDue1),
                         created_by |-> l + 1, created_at |-> now],
                        [assignment_title |-> "Limits and Continuity",
                         classroom_id |-> c + 2, due_date |-> Some(now + SeedDue2),
                         created_by |-> l + 2, created_at |-> now] >>
                /\ submissions' = submissions \o
                     << [student_id |-> s + 1, assignment_id |-> a + 1,
                         assignment_file |-> Some(SeedFile1),
                         mark |-> Some(SeedMark), status |-> "graded",
                         feedback |-> Some("Good work!"),
                         graded_at |-> Some(now), graded_by |-> Some(l + 1)],
                        [student_id |-> s + 2, assignment_id |-> a + 1,
                         assignment_file |-> Some(SeedFile2),
                         mark |-> None, status |-> "submitted",
                         feedback |-> None,
                         graded_at |-> None, graded_by |-> None] >>
    /\ UNCHANGED <<db, now, nextFile, reqs, resp>>

\* Neither program has been run, and the tables are empty.
InitStartup ==
    /\ lecturers = {}
    /\ students = {}
    /\ emails = [lecturer |-> <<>>, student |-> <<>>]
    /\ proc = [p \in Programs |->
                  [pc |-> "off", dbInitialized |-> None, args |-> {}]]
    /\ classrooms = <<>>
    /\ assignments = <<>>
    /\ submissions = <<>>
    /\ now = 0
    /\ nextFile = 0
    /\ reqs = [r \in Reqs |-> Idle]
    /\ resp = NoResp
    /\ db = <<>>

\* What the setup script does once the promise it awaits has settled.
SetupContinue ==
    \/ RunDatabaseSetup
    \/ \E ok \in BOOLEAN : SeedDatabase(ok)

NextStartup ==
    \/ \E p \in Programs, args \in ArgInputs : Run(p, args)
    \/ \E p \in Programs, ok \in BOOLEAN : Authenticate(p, ok)
    \/ \E p \in Programs, ok \in BOOLEAN, force \in BOOLEAN : Sync(p, ok, force)
    \/ StartServer
    \/ SetupContinue

\* The two programs, each run any number of times.  Each is a process of
\* its own, and when the promise it awaits has settled it goes on with the
\* statements that follow the await.
SpecStartup ==
    /\ InitStartup
    /\ [][NextStartup]_vars
    /\ WF_vars(StartServer)
    /\ WF_vars(SetupContinue)

\* ------------------------------------------------------------------ claims

\* The rows of one (student, assignment) pair.
RowsOf(subs, studentId, assignmentId) ==
    {i \in DOMAIN subs : /\ subs[i].student_id = studentId
                         /\ subs[i].assignment_id = assignmentId}

\* C1: in every reachable state, under any interleaving of submits, there is
\* at most one submission row per (student, assignment) pair.
C1_AtMostOneRowPerPair ==
    \A i, j \in DOMAIN submissions :
        (/\ submissions[i].student_id = submissions[j].student_id
         /\ submissions[i].assignment_id = submissions[j].assignment_id) => i = j

\* C2: a submit that finds the pair's earlier submission (calls arriving one
\* after the other) is answered 201 and leaves exactly one row for the pair,
\* the row found, holding this submit's file and the status submitted.
C2_ResubmitReplaces ==
    [][\A r \in Reqs :
          (SubmitWrite(r) /\ reqs[r].existing # None) =>
              LET id == Val(reqs[r].existing)
              IN  /\ resp'.status = 201
                  /\ RowsOf(submissions', reqs[r].student_id,
                            reqs[r].assignment_id) = {id}
                  /\ submissions'[id].assignment_file = Some(reqs[r].file)
                  /\ submissions'[id].status = "submitted"]_vars

\* C3: in every reachable state a submission with a non-null mark has status
\* graded or returned (a re-submission drops the earlier mark).
C3_MarkOnlyWhenGraded ==
    \A i \in DOMAIN submissions :
        submissions[i].mark # None => submissions[i].status \in {"graded", "returned"}

\* The assignment's due date has passed at the time of the step.
PastDue(assignmentId) ==
    /\ assignments[assignmentId].due_date # None
    /\ now > Val(assignments[assignmentId].due_date)

\* C4: the first submission of a pair is inserted with status late when the
\* due date has passed at that moment, and with status submitted otherwise.
C4_LateWhenPastDue ==
    [][\A r \in Reqs :
          (SubmitWrite(r) /\ reqs[r].existing = None) =>
              /\ Len(submissions') = Len(submissions) + 1
              /\ submissions'[Len(submissions')].status =
                    IF PastDue(reqs[r].assignment_id) THEN "late" ELSE "submitted"]_vars

\* C5: a successful grade sets status graded and stamps graded-at in the same
\* step, and leaves this call's mark, feedback and grader on the row, also
\* when the row was graded before.
C5_GradeLeavesLatest ==
    [][\A r \in Reqs, mark \in MarkInputs, feedback \in FeedbackInputs :
          (GradeWrite(r, mark, feedback) /\ resp'.status = 200) =>
              LET row == submissions'[reqs[r].id]
              IN  /\ Len(submissions') = Len(submissions)
                  /\ row.status = "graded"
                  /\ row.graded_at = Some(now)
                  /\ row.graded_by = Some(reqs[r].user)
                  /\ (mark # None => row.mark = Decimal52(mark))
                  /\ (feedback \notin {None, Some("")} => row.feedback = feedback)]_vars

\* A mark outside [0, 100].
OutOfRange(mark) ==
    mark # None /\ (Val(mark) < 0 \/ Val(mark) > 100 * Milli)

\* C6: a grade whose mark lies outside [0, 100] is answered 400 and leaves
\* every submission row exactly as it was.
C6_OutOfRangeRejected ==
    [][\A r \in Reqs :
          (reqs[r].pc = "gradeWrite" /\ reqs'[r].pc = "idle") =>
              \A mark \in MarkInputs, feedback \in FeedbackInputs :
                  (OutOfRange(mark) /\ GradeWrite(r, mark, feedback)) =>
                      /\ resp'.op = "grade"
                      /\ resp'.status = 400
                      /\ submissions' = submissions]_vars

\* C6's case: a grade of an already graded submission was answered 400.
C6_Witness ==
    /\ resp.op = "grade"
    /\ resp.status = 400
    /\ submissions[Val(resp.id)].status = "graded"
    /\ submissions[Val(resp.id)].mark # None

\* C7: a successful grade with a mark m in [0, 100], the boundaries included,
\* leaves m (at the column's two decimals) as the stored mark.
C7_StoredMarkIsGiven ==
    [][\A r \in Reqs, mark \in MarkInputs, feedback \in FeedbackInputs :
          (/\ GradeWrite(r, mark, feedback)
           /\ resp'.status = 200
           /\ mark # None
           /\ ~OutOfRange(mark)) =>
              submissions'[reqs[r].id].mark = Decimal52(mark)]_vars

\* C8: in every reachable state a submission with status graded has a
\* non-null mark and a non-null graded-at.
C8_GradedHasMark ==
    \A i \in DOMAIN submissions :
        submissions[i].status = "graded" =>
            submissions[i].mark # None /\ submissions[i].graded_at # None

\* The grader recorded on a row owns the classroom of the row's assignment.
GraderOwnsClassroom(subs) ==
    \A i \in DOMAIN subs :
        subs[i].graded_by # None =>
            classrooms[assignments[subs[i].assignment_id].classroom_id].created_by
                = Val(subs[i].graded_by)

\* The grade call of slot r was answered 404 and changed nothing.
NotFoundNoChange(r) ==
    /\ resp'.op = "grade"
    /\ resp'.status = 404
    /\ reqs'[r] = Idle
    /\ submissions' = submissions

\* C9: a grade call is answered 404 with no row changed, unless the lecturer
\* owns the classroom, the assignment is the classroom's and the submission
\* is the assignment's, and then it goes on to write that submission in that
\* lecturer's name; so the grader on every row is the owner of the classroom
\* of the row's assignment.
C9_GradeOwnership ==
    [][/\ \A r \in Reqs :
             reqs[r].pc = "idle" =>
                 \/ NotFoundNoChange(r)
                 \/ \A l \in lecturers, c \in ClassroomIds,
                       a \in AssignmentIds, s \in SubmissionIds :
                       GradeRead(r, l, c, a, s) =>
                           /\ c \in DOMAIN classrooms
                           /\ classrooms[c].created_by = l
                           /\ a \in DOMAIN assignments
                           /\ assignments[a].classroom_id = c
                           /\ s \in DOMAIN submissions
                           /\ submissions[s].assignment_id = a
                           /\ reqs'[r].pc = "gradeWrite"
                           /\ reqs'[r].user = l
                           /\ reqs'[r].id = s
       /\ GraderOwnsClassroom(submissions')]_vars

\* C9's case: a grade was refused with 404 while a graded submission exists.
C9_Witness ==
    /\ resp.op = "grade"
    /\ resp.status = 404
    /\ \E i \in DOMAIN submissions : submissions[i].graded_by # None

\* C10: a creation with a valid name and no code is answered 201 and adds a
\* classroom whose code no earlier classroom has and is 6 to 10 long.
C10_GeneratedCode ==
    [][\A l \in lecturers, name \in NameInputs :
          (/\ CreateClassroom(l, name, None)
           /\ name # None
           /\ Len(Val(name)) >= 2
           /\ Len(Val(name)) <= 100) =>
              /\ resp'.status = 201
              /\ Len(classrooms') = Len(classrooms) + 1
              /\ LET code == classrooms'[Len(classrooms')].classroom_code
                 IN  /\ \A i \in DOMAIN classrooms :
                           classrooms[i].classroom_code # code
                     /\ Len(code) >= 6
                     /\ Len(code) <= 10]_vars

\* C11: every call of the code generator ends: a call that is in its retry
\* loop later returns a code or fails, whatever codes are already taken.
C11_GeneratorTerminates ==
    \A r \in Reqs :
        (reqs[r].pc \in {"generate", "lookup"}) ~> (reqs[r].pc \notin {"generate", "lookup"})


\* C12: in every reachable state, whatever creations overlap, no two
\* classrooms share a code, whoever created them.
C12_CodesUnique ==
    \A i, j \in DOMAIN classrooms :
        classrooms[i].classroom_code = classrooms[j].classroom_code => i = j

\* C12's case: a creation was answered 409 after another lecturer's
\* creation stored the same code.
C12_Witness ==
    /\ resp.op = "createClassroom"
    /\ resp.status = 409
    /\ \E i \in DOMAIN classrooms, r \in Reqs :
          /\ reqs[r].pc = "createInsert"
          /\ reqs[r].values.classroom_code = classrooms[i].classroom_code
          /\ reqs[r].values.created_by # classrooms[i].created_by


LowerCase == {"a", "b"}
InCapitals(code) ==
    [i \in 1..Len(code) |->
        IF code[i] = "a" THEN "A" ELSE IF code[i] = "b" THEN "B" ELSE code[i]]

\* The name is missing or not 2 to 100 long, or the code is not 6 to 10 long.
BadClassroomInput(name, code) ==
    \/ name = None
    \/ Len(Val(name)) < 2
    \/ Len(Val(name)) > 100
    \/ Len(Val(code)) < 6
    \/ Len(Val(code)) > 10

\* C14: a creation with a supplied code is answered 400 when the name is
\* missing or out of bounds or the code's length is outside 6..10, else 409
\* when the code in capitals is already stored, and in both cases stores
\* nothing; a creation answered 201 stores the code in capitals.  So every
\* stored code is in capitals and 6 to 10 long.
C14_SuppliedCode ==
    [][/\ \A l \in lecturers, name \in NameInputs, code \in CodeInputs \ {None} :
             CreateClassroom(l, name, code) =>
                 IF BadClassroomInput(name, code)
                 THEN resp'.status = 400 /\ classrooms' = classrooms
                 ELSE IF \E i \in DOMAIN classrooms :
                            classrooms[i].classroom_code = InCapitals(Val(code))
                 THEN resp'.status = 409 /\ classrooms' = classrooms
                 ELSE /\ resp'.status = 201
                      /\ classrooms' = Append(classrooms,
                             [class_name |-> Val(name),
                              classroom_code |-> InCapitals(Val(code)),
                              created_by |-> l])
       /\ \A i \in DOMAIN classrooms' :
             /\ \A k \in DOMAIN classrooms'[i].classroom_code :
                   classrooms'[i].classroom_code[k] \notin LowerCase
             /\ Len(classrooms'[i].classroom_code) >= 6
             /\ Len(classrooms'[i].classroom_code) <= 10]_vars

\* C14's case: a code typed in lower case is stored, in capitals, and a
\* later creation with a code that was taken has been answered 409.
C14_Witness ==
    /\ resp.op = "createClassroom"
    /\ resp.status = 409
    /\ \E i \in DOMAIN classrooms : classrooms[i].classroom_code = Rep("B", 10)


\* C15: to a lecturer who does not own classroom X, GET /api/classrooms/X
\* answers exactly what it answers for an id no classroom has: 404 with the
\* same message and no classroom.
C15_GetByIdMasksExistence ==
    [][\A l \in lecturers, x \in DOMAIN classrooms :
          classrooms[x].created_by # l =>
              /\ getClassroomById(l, x) = getClassroomById(l, Len(classrooms) + 1)
              /\ getClassroomById(l, x).status = 404
              /\ getClassroomById(l, x).classroom = None
              /\ GetClassroomById(l, x) => resp'.status = 404]_vars

\* C15's case: the id of another lecturer's classroom was asked for and
\* answered 404.
C15_Witness ==
    /\ resp.op = "getClassroom"
    /\ resp.status = 404
    /\ Val(resp.id) \in DOMAIN classrooms

\* C16: GET /api/classrooms/code/:classroomCode looks the code up in
\* capitals and answers 404 when no classroom has it, 403 to a lecturer who
\* did not create the classroom, and the classroom to its creator and to
\* any student.
C16_GetByCode ==
    [][\A user \in UserInputs, code \in CodeParams :
          GetClassroomByCode(user, code) =>
              LET hits == {i \in DOMAIN classrooms :
                              classrooms[i].classroom_code = InCapitals(code)}
              IN  IF hits = {}
                  THEN resp'.status = 404 /\ resp'.id = None
                  ELSE \E i \in hits :
                          IF user.type = "lecturer" /\ classrooms[i].created_by # user.id
                          THEN resp'.status = 403 /\ resp'.id = None
                          ELSE resp'.status = 200 /\ resp'.id = Some(i)]_vars

\* C16's case: a lecturer asked for another lecturer's classroom by its
\* code and was answered 403.
C16_Witness ==
    /\ resp.op = "getClassroomByCode"
    /\ resp.status = 403


\* The students recorded in a classroom of the membership records.
Members(file, c) == {file[c].studentIds[i].v : i \in DOMAIN file[c].studentIds}

\* C17: a (student, classroom) pair occurs at most once in the membership
\* records: a join of a pair that is not recorded adds it and is answered
\* 200, a join of a recorded pair is answered 409 and changes nothing.
C17_JoinOnce ==
    [][/\ \A c \in DOMAIN db' :
             \A i, j \in DOMAIN db'[c].studentIds :
                 db'[c].studentIds[i].v = db'[c].studentIds[j].v => i = j
       /\ \A code \in CodeInputs \ {None, Some(<<>>)},
             id \in JoinStudentInputs \ {None} :
             Join(code, id) =>
                 \A c \in DOMAIN db :
                     db[c].secretCode = InCapitals(Val(code)) =>
                         IF Val(id).v \in Members(db, c)
                         THEN resp'.status = 409 /\ db' = db
                         ELSE /\ resp'.status = 200
                              /\ Members(db', c) = Members(db, c) \cup {Val(id).v}]_vars

\* C18: a join that names a code no classroom has, or a student that does
\* not exist, is answered 404 and records no membership.
C18_JoinNotFound ==
    [][\A code \in CodeInputs \ {None, Some(<<>>)},
         id \in JoinStudentInputs \ {None} :
          (/\ Join(code, id)
           /\ \/ Val(id).v \notin students
              \/ /\ \A c \in DOMAIN db : db[c].secretCode # InCapitals(Val(code))
                 /\ \A k \in DOMAIN classrooms :
                       classrooms[k].classroom_code # InCapitals(Val(code))) =>
              resp'.status = 404 /\ db' = db]_vars

\* C19: once a lecturer has created a classroom with code C, a join of an
\* existing student with C in any letter case is answered 200 and records
\* the student in that classroom.
C19_JoinCreatedClassroom ==
    [][\A code \in CodeInputs \ {None, Some(<<>>)},
         id \in JoinStudentInputs \ {None} :
          (/\ Join(code, id)
           /\ Val(id).v \in students
           /\ \E k \in DOMAIN classrooms :
                 classrooms[k].classroom_code = InCapitals(Val(code))
           /\ \A c \in DOMAIN db : Val(id).v \notin Members(db, c)) =>
              /\ resp'.status = 200
              /\ \E c \in DOMAIN db' :
                    /\ db'[c].secretCode = InCapitals(Val(code))
                    /\ Val(id).v \in Members(db', c)]_vars


\* Every assignment belongs to the lecturer who owns its classroom.
OwnerOfClassroom(rows) ==
    \A a \in DOMAIN rows :
        classrooms[rows[a].classroom_id].created_by = rows[a].created_by

\* C20 as stated: creating an assignment is answered 403 when the lecturer
\* does not own the classroom and 400 when the title is empty, and creates
\* nothing in both cases; a created assignment belongs to the lecturer who
\* owns its classroom.
C20_CreateForbidden ==
    [][/\ \A l \in lecturers, c \in ClassroomIds, title \in TitleInputs,
             due \in DueDateInputs :
             CreateAssignment(l, c, title, due) =>
                 IF title = None \/ Val(title) = ""
                 THEN resp'.status = 400 /\ assignments' = assignments
                 ELSE (c \notin DOMAIN classrooms \/ classrooms[c].created_by # l) =>
                          resp'.status = 403 /\ assignments' = assignments
       /\ OwnerOfClassroom(assignments')]_vars

\* C20 as the code has it: 400 when the title is empty, otherwise 404 when
\* the lecturer does not own the classroom, nothing created in both cases;
\* a created assignment belongs to the lecturer who owns its classroom.
C20_CreateNotFound ==
    [][/\ \A l \in lecturers, c \in ClassroomIds, title \in TitleInputs,
             due \in DueDateInputs :
             CreateAssignment(l, c, title, due) =>
                 IF title = None \/ Val(title) = ""
                 THEN resp'.status = 400 /\ assignments' = assignments
                 ELSE (c \notin DOMAIN classrooms \/ classrooms[c].created_by # l) =>
                          resp'.status = 404 /\ assignments' = assignments
       /\ resp'.status = 201 /\ resp'.op = "createAssignment" /\ resp' # resp =>
             /\ Len(assignments') = Len(assignments) + 1
             /\ Val(resp'.id) = Len(assignments')
       /\ OwnerOfClassroom(assignments')]_vars

\* C20's case: assignments have been created, and a creation in a
\* classroom of another lecturer was answered 404.
C20_Witness ==
    /\ resp.op = "createAssignment"
    /\ resp.status = 404
    /\ Len(assignments) = MaxAssignments

\* C21: a creation whose due date is not strictly after the time of the call
\* (by a lecturer who owns the classroom, with a title) is answered 400 and
\* creates nothing, however long the server has been running.
C21_PastDueRejected ==
    [][\A l \in lecturers, c \in ClassroomIds, title \in TitleInputs,
          due \in DueDateInputs :
          (/\ CreateAssignment(l, c, title, due)
           /\ title \notin {None, Some("")}
           /\ ownsClassroom(l, c)
           /\ due # None
           /\ Val(due) <= now) =>
              resp'.status = 400 /\ assignments' = assignments]_vars

\* C22: reading an assignment is answered 200 with that assignment exactly
\* when the lecturer owns the classroom named and the assignment is in it,
\* and 404 otherwise, also when the assignment exists in another classroom
\* of the same lecturer.
C22_GetAssignmentById ==
    \A l \in lecturers, c \in ClassroomIds, a \in AssignmentIds :
        LET answer == getAssignmentById(l, c, a)
            owned == c \in DOMAIN classrooms /\ classrooms[c].created_by = l
            inClassroom == a \in DOMAIN assignments /\ assignments[a].classroom_id = c
        IN  /\ answer.status \in {200, 404}
            /\ answer.status = 200 <=> (owned /\ inClassroom)
            /\ answer.status = 200 => answer.assignment = Some(a)
            /\ answer.status = 404 => answer.assignment = None

\* C22's case: a lecturer who owns two classrooms asked for an assignment of
\* one of them under the other and was answered 404.
C22_Witness ==
    /\ resp.op = "getAssignment"
    /\ resp.status = 404
    /\ \E c1, c2 \in DOMAIN classrooms, a \in DOMAIN assignments :
          /\ c1 # c2
          /\ classrooms[c1].created_by = classrooms[c2].created_by
          /\ assignments[a].classroom_id = c1
          /\ getAssignmentById(classrooms[c2].created_by, c2, a).status = 404
          /\ getAssignmentById(classrooms[c1].created_by, c1, a).status = 200

\* C23: a submit with a student id and a file is answered 404, with no
\* submission row created or changed and no write left pending, when the
\* classroom does not exist, when the assignment does not exist or is not in
\* the classroom named, or when the student does not exist.
C23_SubmitNotFound ==
    [][nextFile' = nextFile + 1 =>
          \A r \in Reqs, c \in ClassroomIds, a \in AssignmentIds,
             s \in StudentIdInputs, upload \in BOOLEAN, data \in BOOLEAN :
             (/\ s # None
              /\ upload \/ data
              /\ \/ c \notin DOMAIN classrooms
                 \/ a \notin DOMAIN assignments
                 \/ assignments[a].classroom_id # c
                 \/ Val(s) \notin students
              /\ SubmitRead(r, c, a, s, upload, data)) =>
                 /\ resp'.op = "submit"
                 /\ resp'.status = 404
                 /\ submissions' = submissions
                 /\ reqs' = reqs]_vars

\* C23's case: a submission is stored, and a later submit that brought a
\* file was answered 404.
C23_Witness ==
    /\ resp.op = "submit"
    /\ resp.status = 404
    /\ submissions # <<>>
    /\ nextFile = MaxFiles

\* No email is held by two rows of one table.
EmailsUnique(table) ==
    \A i, j \in DOMAIN table : table[i] = table[j] => i = j

\* C24: however signups overlap, no two lecturers and no two students hold
\* one email, and a signup that passed the lookup with values the model
\* accepts, and finds its email stored at its INSERT, is answered 409 and
\* stores nothing; no signup is answered with a status other than 201, 400
\* and 409.
C24_SignupRace ==
    [][/\ \A kind \in Kinds : EmailsUnique(emails'[kind])
       /\ \A r \in Reqs :
             (reqs[r].pc = "signupCreate" /\ reqs'[r].pc = "idle") =>
                 /\ resp'.status \in {201, 400, 409}
                 /\ (/\ AccountValid(reqs[r].values)
                     /\ \E i \in DOMAIN emails[reqs[r].kind] :
                           emails[reqs[r].kind][i] = reqs[r].values.email) =>
                        resp'.status = 409 /\ emails' = emails]_vars

\* C24's case: two signups of one kind with one email were both past the
\* lookup, one was stored and the other has been answered 409.
C24_Witness ==
    /\ resp.status = 409
    /\ resp.op \in Kinds
    /\ resp.id = None
    /\ \A r \in Reqs : reqs[r].pc = "idle"
    /\ Len(emails[resp.op]) = 1
    /\ \A kind \in Kinds \ {resp.op} : emails[kind] = <<>>

\* seq lists exactly the rows ids, each once.
ListsExactly(seq, ids) ==
    /\ {seq[i] : i \in DOMAIN seq} = ids
    /\ Len(seq) = Cardinality(ids)

\* C25: both listings are answered 404 to a lecturer who does not own the
\* classroom; to the owner they are answered 200 with exactly the
\* assignments of the classroom, the later created first, and with exactly
\* the submissions of the assignment (of that classroom).
C25_Listings ==
    [][/\ \A l \in lecturers, c \in ClassroomIds :
             ListAssignments(l, c) =>
                 IF c \in DOMAIN classrooms /\ classrooms[c].created_by = l
                 THEN /\ resp'.status = 200
                      /\ ListsExactly(Val(resp'.id), assignmentsOf(c))
                      /\ \A i, j \in DOMAIN Val(resp'.id) :
                            i < j => assignments[Val(resp'.id)[i]].created_at >=
                                     assignments[Val(resp'.id)[j]].created_at
                 ELSE resp'.status = 404 /\ resp'.id = None
       /\ \A l \in lecturers, c \in ClassroomIds, a \in AssignmentIds :
             ListSubmissions(l, c, a) =>
                 IF c \in DOMAIN classrooms /\ classrooms[c].created_by = l
                 THEN (a \in DOMAIN assignments /\ assignments[a].classroom_id = c) =>
                          /\ resp'.status = 200
                          /\ ListsExactly(Val(resp'.id), submissionsOf(a))
                 ELSE resp'.status = 404 /\ resp'.id = None]_vars

\* C26: a successful grade never leaves its submission graded with a file
\* other than the one the row held when the grade call read it, whatever
\* re-submission came in between.
C26_GradedFileAsRead ==
    [][\A r \in Reqs :
          (/\ reqs[r].pc = "gradeWrite"
           /\ reqs'[r].pc = "idle"
           /\ resp'.status = 200) =>
              (submissions'[reqs[r].id].status = "graded" =>
                  submissions'[reqs[r].id].assignment_file =
                      reqs[r].assignment_file)]_vars

\* C27: after a submit answered 201, sent as an upload or as JSON, the row
\* the answer names is a row of the call's (student, assignment) pair and
\* holds the file that call brought.
C27_RowHoldsCallersFile ==
    [][\A r \in Reqs :
          (/\ reqs[r].pc = "submitWrite"
           /\ reqs'[r].pc = "idle"
           /\ resp'.op = "submit"
           /\ resp'.status = 201) =>
              LET row == submissions'[Val(resp'.id)]
              IN  /\ row.student_id = reqs[r].student_id
                  /\ row.assignment_id = reqs[r].assignment_id
                  /\ row.assignment_file = Some(reqs[r].file)]_vars

\* C28: starting with no submissions, every row has status submitted or
\* graded (never returned, never late); a new row starts as submitted, a row
\* becomes graded only by the write of a grade call for it, and a graded row
\* goes back to submitted only by the write of a submit that found it.
C28_StatusMoves ==
    [][\A i \in DOMAIN submissions' :
          LET after == submissions'[i].status
          IN  /\ after \in {"submitted", "graded"}
              /\ i \notin DOMAIN submissions => after = "submitted"
              /\ (i \in DOMAIN submissions /\ submissions[i].status # after) =>
                    \E r \in Reqs :
                        /\ reqs'[r].pc = "idle"
                        /\ IF after = "graded"
                           THEN /\ reqs[r].pc = "gradeWrite"
                                /\ reqs[r].id = i
                                /\ submissions[i].status = "submitted"
                           ELSE /\ reqs[r].pc = "submitWrite"
                                /\ reqs[r].existing = Some(i)
                                /\ submissions[i].status = "graded"]_vars

\* C28's case: a graded row was submitted again: it is back at submitted
\* and still carries the stamp and the mark of its grade.
C28_Witness ==
    /\ resp.op = "submit"
    /\ resp.status = 201
    /\ resp.updated
    /\ submissions[Val(resp.id)].status = "submitted"
    /\ submissions[Val(resp.id)].graded_at # None
    /\ submissions[Val(resp.id)].mark # None

\* Every row but row id is as it was, and no row was added or removed.
OthersUnchanged(id) ==
    /\ Len(submissions') = Len(submissions)
    /\ \A j \in DOMAIN submissions : j # id => submissions'[j] = submissions[j]

ReturnedFalse(p) ==
    proc[p].pc = "returned" /\ proc[p].dbInitialized = Some(FALSE)

\* C30: the server comes to listen only from initializeDatabase having
\* returned true; the setup script comes to seed, and rows are added to the
\* tables, only from it having returned true with --seed or -s among the
\* arguments; a failure inside initializeDatabase is always returned as
\* false; and a program it has returned false to does nothing but exit with
\* failure, which it does.
C30_StartupOrder ==
    /\ [][/\ (proc'.server.pc = "listening" /\ proc.server.pc # "listening") =>
                /\ proc.server.pc = "returned"
                /\ proc.server.dbInitialized = Some(TRUE)
          /\ (proc'.setup.pc = "seeding" /\ proc.setup.pc # "seeding") =>
                /\ proc.setup.pc = "returned"
                /\ proc.setup.dbInitialized = Some(TRUE)
                /\ "--seed" \in proc.setup.args \/ "-s" \in proc.setup.args
          /\ Len(emails'.lecturer) > Len(emails.lecturer) =>
                /\ proc.setup.pc = "seeding"
                /\ proc.setup.dbInitialized = Some(TRUE)
                /\ "--seed" \in proc.setup.args \/ "-s" \in proc.setup.args
          /\ \A p \in Programs :
                /\ (proc[p].pc \in {"authenticate", "sync"} /\ proc'[p] # proc[p]) =>
                      \/ proc'[p].pc = "sync" /\ proc'[p].dbInitialized = None
                      \/ proc'[p].pc = "returned" /\ proc'[p].dbInitialized # None
                /\ (ReturnedFalse(p) /\ proc'[p] # proc[p]) =>
                      /\ proc'[p].pc = "exit1"
                      /\ Len(emails'.lecturer) = Len(emails.lecturer)]_vars
    /\ \A p \in Programs : ReturnedFalse(p) ~> (proc[p].pc = "exit1")

\* C30's case: the server was refused by the database and has exited with
\* failure, and the setup script, run with -s alone, has seeded the tables
\* and exited.
C30_Witness ==
    /\ proc.server.pc = "exit1"
    /\ proc.server.dbInitialized = Some(FALSE)
    /\ proc.setup.pc = "exit0"
    /\ proc.setup.args = {"-s"}
    /\ emails.lecturer = <<John, Sarah>>

====
